---- MODULE Spec2Model ----
(***************************************************************************)
(* Keyword detection engine of the STEM keyword detector worker            *)
(* (cloudflare-workers/keyword-detector/src/KeywordDetector.js): the       *)
(* dictionary, the keyword index, the phrase matcher, the statistics and   *)
(* the POST /detect handler.                                               *)
(*                                                                         *)
(* Strings are sequences of atoms: an atom is one word ("DNA") or one      *)
(* space (" "), so that joining, lowercasing and splitting are computed.   *)
(* Numbers are integers; a confidence c in [0,1] is the integer c * One,   *)
(* exact for the averages of up to MaxPhraseLength multiples of 0.05.      *)
(* Floating-point rounding is outside the model.  An optional value is     *)
(* << >> (absent, undefined) or <<v>> (present).                           *)
(***************************************************************************)
EXTENDS Integers, Sequences, FiniteSets, TLC

VARIABLES body, pc, detector, detectedKeywords, keywords, statistics,
          config, response, previous, thrown, rebuild, observed

vars == <<body, pc, detector, detectedKeywords, keywords, statistics,
          config, response, previous, thrown, rebuild, observed>>

(***************************************************************************)
(* Bounds of the model                                                     *)
(***************************************************************************)
MaxWords == 4

(***************************************************************************)
(* Optional values                                                         *)
(***************************************************************************)
None == << >>

Some(v) == <<v>>

IsPresent(o) == Len(o) = 1

(***************************************************************************)
(* Numbers                                                                 *)
(***************************************************************************)
\* The unit of confidence: 1.0, divisible by 100 and by every phrase length
One == 100 * 12

Pct(p) == (p * One) \div 100

DefaultTokenConfidence == Pct(90)

DefaultMinConfidence == Pct(70)

MaxPhraseLength == 4

Min2(a, b) == IF a <= b THEN a ELSE b

Max2(a, b) == IF a >= b THEN a ELSE b

(***************************************************************************)
(* Strings                                                                 *)
(***************************************************************************)
Sp == " "

LowerAtom(a) ==
    CASE a = "DNA" -> "dna"
      [] OTHER -> a

ToLowerCase(s) == [k \in DOMAIN s |-> LowerAtom(s[k])]

RECURSIVE Join(_)
Join(texts) ==
    IF Len(texts) = 0 THEN << >>
    ELSE IF Len(texts) = 1 THEN texts[1]
    ELSE texts[1] \o <<Sp>> \o Join(Tail(texts))

\* keyword.split(/\s+/).length: one more than the number of maximal runs of
\* whitespace.
SplitLength(s) ==
    1 + Cardinality({k \in DOMAIN s : s[k] = Sp /\ (k = 1 \/ s[k - 1] # Sp)})

\* Normalization that lowercases whatever the flag
NormalizeAlwaysLower(caseSensitive, s) == ToLowerCase(s)

Normalize(caseSensitive, s) == IF caseSensitive THEN s ELSE ToLowerCase(s)

(***************************************************************************)
(* The dictionary: the entries of FIELD_KEYWORDS whose words belong to the *)
(* vocabulary of the model, in the source's order.                         *)
(***************************************************************************)
getAllFields ==
    << "classical mechanics", "thermodynamics", "biochemistry",
       "molecular biology", "genetics", "evolution", "ecology" >>

FIELD_KEYWORDS ==
    [ f \in {getAllFields[k] : k \in DOMAIN getAllFields} |->
        CASE f = "classical mechanics" -> << <<"energy">> >>
          [] f = "thermodynamics" ->
                << <<"energy">>, <<"free", Sp, "energy">>,
                   <<"gibbs", Sp, "free", Sp, "energy">> >>
          [] f = "biochemistry" -> << <<"DNA">> >>
          [] f = "molecular biology" ->
                << <<"DNA">>, <<"DNA", Sp, "polymerase">>,
                   <<"recombinant", Sp, "DNA">> >>
          [] f = "genetics" -> << <<"DNA">> >>
          [] f = "evolution" ->
                << <<"survival", Sp, "of", Sp, "the", Sp, "fittest">> >>
          [] f = "ecology" -> << <<"energy", Sp, "flow">> >> ]

\* Names that the object inherits from Object.prototype: FIELD_KEYWORDS[name]
\* is a function or an object, never an array.
PrototypeKeys == {"constructor"}

\* field.toLowerCase().trim() on the field names of the model
LowerTrimField(field) ==
    CASE field = "Genetics" -> "genetics"
      [] OTHER -> field

hasField(field) ==
    LET normalizedField == LowerTrimField(field)
    IN normalizedField \in DOMAIN FIELD_KEYWORDS
       \/ normalizedField \in PrototypeKeys

(***************************************************************************)
(* Keyword index: normalized phrase -> list of {field, keyword, wordCount} *)
(***************************************************************************)
EmptyIndex == << >>

IndexHas(index, key) == key \in DOMAIN index

IndexGet(index, key) == IF key \in DOMAIN index THEN index[key] ELSE << >>

\* AddKeyword recording every keyword as one word
AddKeywordOneWord(index, caseSensitive, field, keyword) ==
    LET normalizedKeyword == Normalize(caseSensitive, keyword)
        entry == [field |-> field, keyword |-> keyword, wordCount |-> 1]
    IN IF IndexHas(index, normalizedKeyword)
       THEN [index EXCEPT ![normalizedKeyword] = Append(@, entry)]
       ELSE index @@ (normalizedKeyword :> <<entry>>)

\* AddKeyword putting the entry at the front of its bucket
AddKeywordInFront(index, caseSensitive, field, keyword) ==
    LET normalizedKeyword == Normalize(caseSensitive, keyword)
        entry == [field |-> field, keyword |-> keyword,
                  wordCount |-> SplitLength(keyword)]
    IN IF IndexHas(index, normalizedKeyword)
       THEN [index EXCEPT ![normalizedKeyword] = <<entry>> \o @]
       ELSE index @@ (normalizedKeyword :> <<entry>>)

AddKeyword(index, caseSensitive, field, keyword) ==
    LET normalizedKeyword == Normalize(caseSensitive, keyword)
        entry == [field |-> field, keyword |-> keyword,
                  wordCount |-> SplitLength(keyword)]
    IN IF IndexHas(index, normalizedKeyword)
       THEN [index EXCEPT ![normalizedKeyword] = Append(@, entry)]
       ELSE index @@ (normalizedKeyword :> <<entry>>)

RECURSIVE AddKeywords(_, _, _, _)
AddKeywords(index, caseSensitive, field, kws) ==
    IF Len(kws) = 0 THEN index
    ELSE AddKeywords(AddKeyword(index, caseSensitive, field, Head(kws)),
                     caseSensitive, field, Tail(kws))

\* The forEach over this.targetFields.  A name found on Object.prototype
\* yields a truthy value without forEach: the TypeError leaves the index as
\* built so far (threw = TRUE).
RECURSIVE IndexFields(_, _, _)
IndexFields(fields, caseSensitive, index) ==
    IF Len(fields) = 0 THEN [threw |-> FALSE, index |-> index]
    ELSE LET field == Head(fields)
         IN IF field \in DOMAIN FIELD_KEYWORDS
            THEN IndexFields(Tail(fields), caseSensitive,
                     AddKeywords(index, caseSensitive, field,
                                 FIELD_KEYWORDS[field]))
            ELSE IF field \in PrototypeKeys
            THEN [threw |-> TRUE, index |-> index]
            ELSE IndexFields(Tail(fields), caseSensitive, index)

_buildKeywordIndex(targetFields, caseSensitive) ==
    IndexFields(targetFields, caseSensitive, EmptyIndex)

(***************************************************************************)
(* Bounding box and confidence of a phrase                                 *)
(***************************************************************************)
RECURSIVE FoldMin(_, _)
FoldMin(xs, acc) ==
    IF Len(xs) = 0 THEN acc
    ELSE FoldMin(Tail(xs), IF acc = None THEN Some(Head(xs))
                           ELSE Some(Min2(acc[1], Head(xs))))

RECURSIVE FoldMax(_, _)
FoldMax(xs, acc) ==
    IF Len(xs) = 0 THEN acc
    ELSE FoldMax(Tail(xs), IF acc = None THEN Some(Head(xs))
                           ELSE Some(Max2(acc[1], Head(xs))))

\* The box of the first word instead of the enclosing box
BoundingBoxOfFirstWord(words) ==
    IF Len(words) = 0 THEN [x |-> 0, y |-> 0, width |-> 0, height |-> 0]
    ELSE [x |-> words[1].x, y |-> words[1].y,
          width |-> words[1].width, height |-> words[1].height]

_calculateBoundingBox(words) ==
    IF Len(words) = 0 THEN [x |-> 0, y |-> 0, width |-> 0, height |-> 0]
    ELSE IF Len(words) = 1
    THEN [x |-> words[1].x, y |-> words[1].y,
          width |-> words[1].width, height |-> words[1].height]
    ELSE LET minX == FoldMin([k \in DOMAIN words |-> words[k].x], None)[1]
             minY == FoldMin([k \in DOMAIN words |-> words[k].y], None)[1]
             maxX == FoldMax([k \in DOMAIN words |->
                                 words[k].x + words[k].width], None)[1]
             maxY == FoldMax([k \in DOMAIN words |->
                                 words[k].y + words[k].height], None)[1]
         IN [x |-> minX, y |-> minY,
             width |-> maxX - minX, height |-> maxY - minY]

\* word.confidence || 0.9: undefined and 0 are both falsy
ConfidenceOrDefault(confidence) ==
    IF IsPresent(confidence) /\ confidence[1] # 0
    THEN confidence[1] ELSE DefaultTokenConfidence

RECURSIVE SumConfidence(_, _)
SumConfidence(words, sum) ==
    IF Len(words) = 0 THEN sum
    ELSE SumConfidence(Tail(words),
                       sum + ConfidenceOrDefault(Head(words).confidence))

_calculateConfidence(words) ==
    IF Len(words) = 0 THEN 0
    ELSE SumConfidence(words, 0) \div Len(words)

(***************************************************************************)
(* detectKeywords                                                          *)
(***************************************************************************)
\* Array.from({length: phraseLength}, (_, j) => i + j)
WordIndices(i, phraseLength) == [j \in 1..phraseLength |-> i + j - 1]

\* MatchRecords putting the keyword as written into normalizedText
MatchRecordsKeywordText(matches, normalizedText, confidence, position, wordIndices) ==
    [k \in DOMAIN matches |->
        [text |-> matches[k].keyword,
         normalizedText |-> matches[k].keyword,
         field |-> matches[k].field,
         confidence |-> confidence,
         position |-> position,
         wordIndices |-> wordIndices]]

\* One record per index entry of the phrase (matches.forEach)
MatchRecords(matches, normalizedText, confidence, position, wordIndices) ==
    [k \in DOMAIN matches |->
        [text |-> matches[k].keyword,
         normalizedText |-> normalizedText,
         field |-> matches[k].field,
         confidence |-> confidence,
         position |-> position,
         wordIndices |-> wordIndices]]

\* w.text as Array.prototype.join renders it: the empty string when the token
\* has no text
TextOf(word) == IF "text" \in DOMAIN word THEN word.text ELSE << >>

\* MatchWindow consuming the tokens only of a match that passes the threshold
MatchWindowConsumingReturned(d, words, phraseLength, i, acc) ==
    IF \E j \in i..(i + phraseLength - 1) : j \in acc.processedIndices
    THEN acc
    ELSE LET phraseWords == SubSeq(words, i + 1, i + phraseLength)
             phraseText ==
                 Join([k \in DOMAIN phraseWords |-> TextOf(phraseWords[k])])
             normalizedPhrase == Normalize(d.caseSensitive, phraseText)
             matches == IndexGet(d.keywordIndex, normalizedPhrase)
         IN IF Len(matches) > 0
            THEN [acc EXCEPT
                    !.detectedKeywords =
                        @ \o MatchRecords(matches, normalizedPhrase,
                                          _calculateConfidence(phraseWords),
                                          _calculateBoundingBox(phraseWords),
                                          WordIndices(i, phraseLength)),
                    !.processedIndices =
                        IF _calculateConfidence(phraseWords) >= d.minConfidence
                        THEN @ \cup i..(i + phraseLength - 1)
                        ELSE @]
            ELSE acc

\* MatchWindow without the test of processedIndices
MatchWindowNoSkip(d, words, phraseLength, i, acc) ==
    LET phraseWords == SubSeq(words, i + 1, i + phraseLength)
        phraseText ==
            Join([k \in DOMAIN phraseWords |-> TextOf(phraseWords[k])])
        normalizedPhrase == Normalize(d.caseSensitive, phraseText)
        matches == IndexGet(d.keywordIndex, normalizedPhrase)
    IN IF Len(matches) > 0
       THEN [acc EXCEPT
               !.detectedKeywords =
                   @ \o MatchRecords(matches, normalizedPhrase,
                                     _calculateConfidence(phraseWords),
                                     _calculateBoundingBox(phraseWords),
                                     WordIndices(i, phraseLength)),
               !.processedIndices = @ \cup i..(i + phraseLength - 1)]
       ELSE acc

\* Body of the inner loop for the window of phraseLength tokens that starts
\* at the 0-based index i; acc holds detectedKeywords and processedIndices.
MatchWindow(d, words, phraseLength, i, acc) ==
    IF \E j \in i..(i + phraseLength - 1) : j \in acc.processedIndices
    THEN acc
    ELSE LET phraseWords == SubSeq(words, i + 1, i + phraseLength)
             phraseText ==
                 Join([k \in DOMAIN phraseWords |-> TextOf(phraseWords[k])])
             normalizedPhrase == Normalize(d.caseSensitive, phraseText)
             matches == IndexGet(d.keywordIndex, normalizedPhrase)
         IN IF Len(matches) > 0
            THEN [acc EXCEPT
                    !.detectedKeywords =
                        @ \o MatchRecords(matches, normalizedPhrase,
                                          _calculateConfidence(phraseWords),
                                          _calculateBoundingBox(phraseWords),
                                          WordIndices(i, phraseLength)),
                    !.processedIndices = @ \cup i..(i + phraseLength - 1)]
            ELSE acc

\* ScanStarts going from the last start index down to the first
RECURSIVE ScanStartsDown(_, _, _, _, _)
ScanStartsDown(d, words, phraseLength, i, acc) ==
    IF i < 0 THEN acc
    ELSE ScanStartsDown(d, words, phraseLength, i - 1,
                        MatchWindow(d, words, phraseLength, i, acc))

ScanStartsFromEnd(d, words, phraseLength, i, acc) ==
    ScanStartsDown(d, words, phraseLength, Len(words) - phraseLength, acc)

RECURSIVE ScanStarts(_, _, _, _, _)
ScanStarts(d, words, phraseLength, i, acc) ==
    IF i > Len(words) - phraseLength THEN acc
    ELSE ScanStarts(d, words, phraseLength, i + 1,
                    MatchWindow(d, words, phraseLength, i, acc))

\* ScanLengths trying the shortest phrases first
RECURSIVE ScanLengthsUp(_, _, _, _, _)
ScanLengthsUp(d, words, phraseLength, maxLength, acc) ==
    IF phraseLength > maxLength THEN acc
    ELSE ScanLengthsUp(d, words, phraseLength + 1, maxLength,
                       ScanStarts(d, words, phraseLength, 0, acc))

ScanLengthsShortestFirst(d, words, phraseLength, acc) ==
    ScanLengthsUp(d, words, 1, phraseLength, acc)

RECURSIVE ScanLengths(_, _, _, _)
ScanLengths(d, words, phraseLength, acc) ==
    IF phraseLength < 1 THEN acc
    ELSE ScanLengths(d, words, phraseLength - 1,
                     ScanStarts(d, words, phraseLength, 0, acc))

\* MatchSingleWord taking a present confidence of 0 as it stands
MatchSingleWordOwnConfidence(d, words, index, acc) ==
    IF index \in acc.processedIndices THEN acc
    ELSE LET word == words[index + 1]
         IN IF "text" \notin DOMAIN word
            THEN IF d.caseSensitive THEN acc ELSE [acc EXCEPT !.threw = TRUE]
            ELSE LET normalizedWord == Normalize(d.caseSensitive, word.text)
                     matches == IndexGet(d.keywordIndex, normalizedWord)
                 IN IF Len(matches) > 0
                    THEN [acc EXCEPT
                            !.detectedKeywords =
                                @ \o MatchRecords(matches, normalizedWord,
                                         IF IsPresent(word.confidence)
                                         THEN word.confidence[1]
                                         ELSE DefaultTokenConfidence,
                                         [x |-> word.x, y |-> word.y,
                                          width |-> word.width,
                                          height |-> word.height],
                                         <<index>>),
                            !.processedIndices = @ \cup {index}]
                    ELSE acc

\* Body of words.forEach in single-word mode.  A token without text gives
\* undefined: the case-sensitive lookup of undefined finds nothing, and
\* undefined.toLowerCase() is a TypeError that ends the whole call.
MatchSingleWord(d, words, index, acc) ==
    IF index \in acc.processedIndices THEN acc
    ELSE LET word == words[index + 1]
         IN IF "text" \notin DOMAIN word
            THEN IF d.caseSensitive THEN acc ELSE [acc EXCEPT !.threw = TRUE]
            ELSE LET normalizedWord == Normalize(d.caseSensitive, word.text)
                     matches == IndexGet(d.keywordIndex, normalizedWord)
                 IN IF Len(matches) > 0
                    THEN [acc EXCEPT
                            !.detectedKeywords =
                                @ \o MatchRecords(matches, normalizedWord,
                                         ConfidenceOrDefault(word.confidence),
                                         [x |-> word.x, y |-> word.y,
                                          width |-> word.width,
                                          height |-> word.height],
                                         <<index>>),
                            !.processedIndices = @ \cup {index}]
                    ELSE acc

RECURSIVE ScanSingleWords(_, _, _, _)
ScanSingleWords(d, words, index, acc) ==
    IF index >= Len(words) \/ acc.threw THEN acc
    ELSE ScanSingleWords(d, words, index + 1,
                         MatchSingleWord(d, words, index, acc))

\* The two matching loops: detectedKeywords and processedIndices at their
\* end, threw when a TypeError ended them
ScanKeywords(d, words) ==
    LET start == [detectedKeywords |-> << >>, processedIndices |-> {},
                  threw |-> FALSE]
    IN IF d.multiWordMatching
       THEN ScanLengths(d, words, MaxPhraseLength, start)
       ELSE ScanSingleWords(d, words, 0, start)

\* The accumulated list before the confidence filter
AccumulateKeywords(d, words) == ScanKeywords(d, words).detectedKeywords

PassesThreshold(confidence, minConfidence) == confidence >= minConfidence

\* No filtering at all
FilterNothing(list, minConfidence) == list

FilterByConfidence(list, minConfidence) ==
    SelectSeq(list, LAMBDA kw : PassesThreshold(kw.confidence, minConfidence))

\* A comparator that looks at x only
ComparePositionXOnly(a, b) == a.position.x - b.position.x

\* The comparator of the sort: negative when a goes before b
ComparePosition(a, b) ==
    IF a.position.y # b.position.y
    THEN a.position.y - b.position.y
    ELSE a.position.x - b.position.x

\* Array.prototype.sort is stable: an element is inserted after every
\* element that does not compare greater.
RECURSIVE InsertSorted(_, _)
InsertSorted(sorted, kw) ==
    IF Len(sorted) = 0 THEN <<kw>>
    ELSE IF ComparePosition(kw, Head(sorted)) < 0 THEN <<kw>> \o sorted
    ELSE <<Head(sorted)>> \o InsertSorted(Tail(sorted), kw)

RECURSIVE SortByPosition(_, _)
SortByPosition(list, sorted) ==
    IF Len(list) = 0 THEN sorted
    ELSE SortByPosition(Tail(list), InsertSorted(sorted, Head(list)))

detectKeywords(d, words) ==
    SortByPosition(
        FilterByConfidence(AccumulateKeywords(d, words), d.minConfidence),
        << >>)

\* A check of the argument that lets every non-null value through
ArgumentIsNotNull(wordsType) == wordsType \notin {"null", "undefined"}

\* !(!words || !Array.isArray(words)) on the kind of value passed as words
ArgumentIsArray(wordsType) == wordsType = "array"

\* The error detectKeywords throws on this argument, None when it returns
detectKeywordsError(d, wordsType, words) ==
    IF ~ArgumentIsArray(wordsType)
    THEN Some("words must be an array of word objects")
    ELSE IF ScanKeywords(d, words).threw
    THEN Some("TypeError")
    ELSE None

(***************************************************************************)
(* getStatistics, getConfig                                                *)
(***************************************************************************)
RECURSIVE SumKeywordConfidence(_, _)
SumKeywordConfidence(list, sum) ==
    IF Len(list) = 0 THEN sum
    ELSE SumKeywordConfidence(Tail(list), sum + Head(list).confidence)

\* getStatistics with uniqueTerms counting records instead of distinct terms
getStatisticsCountingRecords(list) ==
    LET fields == {list[k].field : k \in DOMAIN list}
    IN [total |-> Len(list),
        byField |-> [f \in fields |->
                       Cardinality({k \in DOMAIN list : list[k].field = f})],
        averageConfidence |->
            IF Len(list) > 0
            THEN <<SumKeywordConfidence(list, 0), Len(list)>>
            ELSE <<0, 1>>,
        uniqueTerms |-> Len(list)]

\* averageConfidence is the pair <<totalConfidence, length>> of the division
\* totalConfidence / keywords.length, <<0, 1>> for the empty list.
getStatistics(list) ==
    LET fields == {list[k].field : k \in DOMAIN list}
    IN [total |-> Len(list),
        byField |-> [f \in fields |->
                       Cardinality({k \in DOMAIN list : list[k].field = f})],
        averageConfidence |->
            IF Len(list) > 0
            THEN <<SumKeywordConfidence(list, 0), Len(list)>>
            ELSE <<0, 1>>,
        uniqueTerms |->
            Cardinality({list[k].normalizedText : k \in DOMAIN list})]

\* The number of entries of all buckets
RECURSIVE CountEntries(_, _)
CountEntries(index, keys) ==
    IF keys = {} THEN 0
    ELSE LET key == CHOOSE p \in keys : TRUE
         IN Len(index[key]) + CountEntries(index, keys \ {key})

\* getConfig reporting the number of entries instead of the size of the Map
getConfigCountingEntries(d) ==
    [targetFields |-> d.targetFields,
     minConfidence |-> d.minConfidence,
     caseSensitive |-> d.caseSensitive,
     multiWordMatching |-> d.multiWordMatching,
     indexedKeywords |-> CountEntries(d.keywordIndex, DOMAIN d.keywordIndex)]

\* this.keywordIndex.size is the number of keys of the Map
getConfig(d) ==
    [targetFields |-> d.targetFields,
     minConfidence |-> d.minConfidence,
     caseSensitive |-> d.caseSensitive,
     multiWordMatching |-> d.multiWordMatching,
     indexedKeywords |-> Cardinality(DOMAIN d.keywordIndex)]

(***************************************************************************)
(* constructor, setTargetFields                                            *)
(***************************************************************************)
\* config.targetFields || getAllFields(): every array is truthy
ResolveTargetFields(targetFields) ==
    IF IsPresent(targetFields) THEN targetFields[1] ELSE getAllFields

\* config.minConfidence || 0.7: undefined and 0 are both falsy
ResolveMinConfidence(minConfidence) ==
    IF IsPresent(minConfidence) /\ minConfidence[1] # 0
    THEN minConfidence[1] ELSE DefaultMinConfidence

\* config.caseSensitive || false
ResolveCaseSensitive(caseSensitive) ==
    IsPresent(caseSensitive) /\ caseSensitive[1]

\* config.multiWordMatching !== false
ResolveMultiWordMatching(multiWordMatching) ==
    ~(IsPresent(multiWordMatching) /\ multiWordMatching[1] = FALSE)

\* new KeywordDetector(cfg): threw = TRUE when _buildKeywordIndex throws
NewKeywordDetector(cfg) ==
    LET targetFields == ResolveTargetFields(cfg.targetFields)
        caseSensitive == ResolveCaseSensitive(cfg.caseSensitive)
        built == _buildKeywordIndex(targetFields, caseSensitive)
    IN [threw |-> built.threw,
        detector |->
           [targetFields |-> targetFields,
            minConfidence |-> ResolveMinConfidence(cfg.minConfidence),
            caseSensitive |-> caseSensitive,
            multiWordMatching |->
                ResolveMultiWordMatching(cfg.multiWordMatching),
            keywordIndex |-> built.index]]

\* The TypeScript variant: config.minConfidence ?? 0.7 keeps a present 0
ResolveMinConfidenceTS(minConfidence) ==
    IF IsPresent(minConfidence) THEN minConfidence[1]
    ELSE DefaultMinConfidence

\* config.caseSensitive ?? false
ResolveCaseSensitiveTS(caseSensitive) ==
    IF IsPresent(caseSensitive) THEN caseSensitive[1] ELSE FALSE

\* config.multiWordMatching ?? true
ResolveMultiWordMatchingTS(multiWordMatching) ==
    IF IsPresent(multiWordMatching) THEN multiWordMatching[1] ELSE TRUE

\* The constructor of the TypeScript variant; its _buildKeywordIndex,
\* detectKeywords and getConfig are those of the JavaScript class
NewKeywordDetectorTS(cfg) ==
    LET targetFields == ResolveTargetFields(cfg.targetFields)
        caseSensitive == ResolveCaseSensitiveTS(cfg.caseSensitive)
        built == _buildKeywordIndex(targetFields, caseSensitive)
    IN [threw |-> built.threw,
        detector |->
           [targetFields |-> targetFields,
            minConfidence |-> ResolveMinConfidenceTS(cfg.minConfidence),
            caseSensitive |-> caseSensitive,
            multiWordMatching |->
                ResolveMultiWordMatchingTS(cfg.multiWordMatching),
            keywordIndex |-> built.index]]

setTargetFields(d, fields) ==
    LET built == _buildKeywordIndex(fields, d.caseSensitive)
    IN [threw |-> built.threw,
        detector |-> [d EXCEPT !.targetFields = fields,
                               !.keywordIndex = built.index]]

(***************************************************************************)
(* Requests: the inputs the operations are applied to                      *)
(***************************************************************************)
Box(x, y, width, height) == [x |-> x, y |-> y, width |-> width, height |-> height]

Word(text, box, confidence) ==
    [text |-> text, x |-> box.x, y |-> box.y, width |-> box.width,
     height |-> box.height, confidence |-> confidence]

\* Tokens laid out left to right on one line
LineBox(k) == Box(10 + 25 * (k - 1), 0, 20, 5)

\* Vocabularies without and with a word that has upper-case letters
Pools == { {"gibbs", "free", "energy"}, {"free", "energy", "flow"} }

CasePool == {"recombinant", "DNA", "polymerase"}

Phrase == <<"survival", "of", "the", "fittest">>

ArraysOver(pool) == UNION { [1..n -> pool] : n \in 0..MaxWords }

TextArrays == UNION { ArraysOver(pool) : pool \in Pools }

\* The phrases of CasePool have two words: one token less is enough
CaseArrays == UNION { [1..n -> CasePool] : n \in 0..(MaxWords - 1) }

\* The n words that follow the start-th word of the phrase, cyclically
PhraseArrays ==
    { [k \in 1..n |-> Phrase[((start + k - 2) % Len(Phrase)) + 1]] :
        n \in 0..MaxWords, start \in DOMAIN Phrase }

LineWords(atoms) == [k \in DOMAIN atoms |-> Word(<<atoms[k]>>, LineBox(k), None)]

\* A request of well-typed values.  wordsType, targetFieldsType and
\* minConfidenceType name the kind of JSON value sent: words counts only when
\* wordsType is "array", and so on.
Request(words, targetFields, minConfidence, caseSensitive, multiWordMatching) ==
    [words |-> words, targetFields |-> targetFields,
     minConfidence |-> minConfidence, caseSensitive |-> caseSensitive,
     multiWordMatching |-> multiWordMatching,
     wordsType |-> "array", targetFieldsType |-> "array",
     minConfidenceType |-> "number"]

\* Token texts vary; the flags vary where a word has upper case
TextRequests ==
    { Request(LineWords(atoms), None, None, None, None) :
        atoms \in TextArrays }
    \cup
    { Request(LineWords(atoms), None, None, fl[1], fl[2]) :
        atoms \in CaseArrays,
        fl \in { <<None, None>>, <<Some(TRUE), None>>, <<None, Some(FALSE)>> } }

\* Token texts vary over the windows of the repeated 4-word phrase
PhraseRequests ==
    { Request(LineWords(atoms), None, None, None, None) :
        atoms \in PhraseArrays }

FieldLists ==
    { << >>, <<"molecular biology">>, <<"genetics", "biochemistry">>,
      <<"thermodynamics", "classical mechanics", "thermodynamics">>,
      <<"ecology", "thermodynamics", "classical mechanics">>,
      <<"Genetics">>, <<"astrology", "genetics">>, <<"constructor">> }

Flags == {None, Some(TRUE), Some(FALSE)}

\* Target fields and flags vary
FieldRequests ==
    { Request(LineWords(atoms), tf, None, cs, mw) :
        atoms \in { <<"DNA", "energy">>, <<"free", "energy", "flow">>,
                    <<"dna", "polymerase">> },
        tf \in {None} \cup {Some(fl) : fl \in FieldLists},
        cs \in Flags, mw \in Flags }

Boxes ==
    { Box(10, 0, 20, 5), Box(35, 0, 15, 5), Box(10, 7, 0, 3),
      Box(0, 0, 50, 10), Box(35, 7, 15, 0) }

\* Token boxes vary
BoxRequests ==
    { Request(<<Word(<<atoms[1]>>, b1, None), Word(<<atoms[2]>>, b2, None)>>,
              None, None, None, mw) :
        atoms \in { <<"recombinant", "DNA">>, <<"DNA", "energy">> },
        b1 \in Boxes, b2 \in Boxes, mw \in {None, Some(FALSE)} }

Confidences == {None, Some(0), Some(Pct(50)), Some(Pct(70)), Some(Pct(90))}

MinConfidences == {None, Some(0), Some(Pct(80)), Some(One), Some(Pct(150))}

\* Token confidences and the threshold vary
ConfidenceRequests ==
    { Request(<<Word(<<atoms[1]>>, LineBox(1), c1),
                Word(<<atoms[2]>>, LineBox(2), c2)>>,
              None, m, None, mw) :
        atoms \in { <<"recombinant", "DNA">>, <<"DNA", "energy">> },
        c1 \in Confidences, c2 \in Confidences, m \in MinConfidences,
        mw \in {None, Some(FALSE)} }

NonArrayTypes == {"undefined", "null", "string", "object", "number"}

\* words is not an array
NonArrayRequests ==
    { [Request(<< >>, None, None, None, mw) EXCEPT !.wordsType = t] :
        t \in NonArrayTypes, mw \in {None, Some(FALSE)} }

TokenFields == {"text", "x", "y", "width", "height"}

\* The token object without one of its properties
Without(word, field) == [f \in DOMAIN word \ {field} |-> word[f]]

\* One token lacks a required property, before or after a keyword
IncompleteRequests ==
    { Request(IF first
              THEN <<Without(Word(<<"of">>, LineBox(1), None), field),
                     Word(<<kw>>, LineBox(2), None)>>
              ELSE <<Word(<<kw>>, LineBox(1), None),
                     Without(Word(<<"of">>, LineBox(2), None), field)>>,
              None, None, cs, mw) :
        first \in BOOLEAN, field \in TokenFields, kw \in {"DNA", "energy"},
        cs \in {None, Some(TRUE)}, mw \in {None, Some(FALSE)} }

\* targetFields or minConfidence is a value of another type: a non-empty
\* string or the value false for targetFields, a string for minConfidence
IllTypedRequests ==
    { [Request(LineWords(<<"DNA", "energy">>), None, None, None, None)
          EXCEPT !.targetFieldsType = t] : t \in {"string", "false"} }
    \cup
    { [Request(LineWords(<<"DNA", "energy">>), None, Some(Pct(50)), None, None)
          EXCEPT !.minConfidenceType = "string"] }

\* Token texts that hold a space: any non-empty string passes the checks of
\* POST /detect
SpacedTexts ==
    { << <<"free", Sp, "energy">> >>,
      << <<"gibbs", Sp, "free">>, <<"energy">> >>,
      << <<"gibbs">>, <<"free", Sp, "energy">> >>,
      << <<"energy">>, <<"free", Sp, "energy">> >> }

SpacedRequests ==
    { Request([k \in DOMAIN texts |-> Word(texts[k], LineBox(k), None)],
              None, None, None, mw) :
        texts \in SpacedTexts, mw \in {None, Some(FALSE)} }

Requests == TextRequests \cup PhraseRequests \cup FieldRequests
            \cup BoxRequests \cup ConfidenceRequests
            \cup NonArrayRequests \cup IncompleteRequests
            \cup IllTypedRequests \cup SpacedRequests

ReconfigFields ==
    { <<"thermodynamics", "ecology">>, <<"constructor", "genetics">> }

\* The config object built from the body.  The value false for targetFields
\* takes the same branch of || as undefined.
ConfigOf(b) ==
    [targetFields |->
        IF b.targetFieldsType = "false" THEN None ELSE b.targetFields,
     minConfidence |-> b.minConfidence,
     caseSensitive |-> b.caseSensitive,
     multiWordMatching |-> b.multiWordMatching]

\* The configurations a typed caller passes to the constructor
WellTypedConfig(b) ==
    b.targetFieldsType = "array" /\ b.minConfidenceType = "number"

(***************************************************************************)
(* POST /detect                                                            *)
(***************************************************************************)
errorResponse(message, status) ==
    [status |-> status, success |-> FALSE, error |-> message]

\* {success: true, ...data} with status 200
successResponse(data) ==
    [status |-> 200, success |-> TRUE] @@ data

InvalidFields(fields) == SelectSeq(fields, LAMBDA f : ~hasField(f))

\* !word.text || typeof word.text !== 'string'
InvalidText(word) == "text" \notin DOMAIN word \/ Len(word.text) = 0

\* typeof word.x !== 'number' || typeof word.y !== 'number'
InvalidPosition(word) == "x" \notin DOMAIN word \/ "y" \notin DOMAIN word

\* typeof word.width !== 'number' || typeof word.height !== 'number'
InvalidDimensions(word) ==
    "width" \notin DOMAIN word \/ "height" \notin DOMAIN word

\* The first token that fails a check decides the message
FirstInvalidWord(words) ==
    LET bad == {k \in DOMAIN words :
                  \/ InvalidText(words[k])
                  \/ InvalidPosition(words[k])
                  \/ InvalidDimensions(words[k])}
    IN IF bad = {} THEN 0 ELSE CHOOSE k \in bad : \A j \in bad : k <= j

\* if (body.targetFields)
TargetFieldsTruthy(b) ==
    \/ b.targetFieldsType = "string"
    \/ b.targetFieldsType = "array" /\ IsPresent(b.targetFields)

handleDetect(b) ==
    IF b.wordsType # "array"
    THEN errorResponse(<<"Missing or invalid words array in request body">>,
                       400)
    ELSE IF FirstInvalidWord(b.words) # 0
    THEN LET word == b.words[FirstInvalidWord(b.words)]
         IN IF InvalidText(word)
            THEN errorResponse(
                     <<"Invalid word: missing or invalid text field">>, 400)
            ELSE IF InvalidPosition(word)
            THEN errorResponse(
                     <<"Invalid word: missing or invalid position (x, y)">>,
                     400)
            ELSE errorResponse(
                     <<"Invalid word: missing or invalid dimensions (width, height)">>,
                     400)
    ELSE IF TargetFieldsTruthy(b) /\ b.targetFieldsType # "array"
    THEN errorResponse(<<"targetFields must be an array of field names">>, 400)
    ELSE IF TargetFieldsTruthy(b)
            /\ Len(InvalidFields(b.targetFields[1])) > 0
    THEN errorResponse(<<"Invalid fields">> \o InvalidFields(b.targetFields[1]),
                       400)
    ELSE IF IsPresent(b.minConfidence)
            /\ (\/ b.minConfidenceType # "number"
                \/ b.minConfidence[1] < 0
                \/ b.minConfidence[1] > One)
    THEN errorResponse(<<"minConfidence must be a number between 0 and 1">>,
                       400)
    ELSE LET made == NewKeywordDetector(ConfigOf(b))
             found == detectKeywords(made.detector, b.words)
         IN IF made.threw
            THEN errorResponse(<<"Detection error">>, 500)
            ELSE successResponse([keywords |-> found,
                                  statistics |-> getStatistics(found),
                                  config |-> getConfig(made.detector)])

(***************************************************************************)
(* State machine                                                           *)
(***************************************************************************)
Init ==
    /\ body \in Requests
    /\ pc = "start"
    /\ detector = None
    /\ detectedKeywords = None
    /\ keywords = None
    /\ statistics = None
    /\ config = None
    /\ response = None
    /\ previous = None
    /\ thrown = None
    /\ rebuild = None
    /\ observed = None

\* new KeywordDetector(config) by a direct caller
Construct ==
    /\ pc = "start"
    /\ WellTypedConfig(body)
    /\ LET made == NewKeywordDetector(ConfigOf(body))
       IN IF made.threw
          THEN /\ pc' = "failed"
               /\ detector' = detector
               /\ thrown' = Some("TypeError")
          ELSE /\ pc' = "ready"
               /\ detector' = Some(made.detector)
               /\ thrown' = thrown
    /\ UNCHANGED <<body, detectedKeywords, keywords, statistics, config,
                   response, previous, rebuild, observed>>

\* Detect with processedIndices kept on the instance from one call to the
\* next instead of being created by each call
DetectKeepingProcessed ==
    /\ pc = "ready"
    /\ LET d == detector[1]
           kept == IF IsPresent(detectedKeywords)
                   THEN UNION { {detectedKeywords[1][k].wordIndices[j] :
                                   j \in DOMAIN detectedKeywords[1][k].wordIndices} :
                                k \in DOMAIN detectedKeywords[1] }
                   ELSE {}
           start == [detectedKeywords |-> << >>, processedIndices |-> kept,
                     threw |-> FALSE]
           acc == IF d.multiWordMatching
                  THEN ScanLengths(d, body.words, MaxPhraseLength, start)
                  ELSE ScanSingleWords(d, body.words, 0, start)
       IN /\ detectedKeywords' = Some(acc.detectedKeywords)
          /\ keywords' =
                Some(SortByPosition(
                       FilterByConfidence(acc.detectedKeywords, d.minConfidence),
                       << >>))
    /\ previous' = keywords
    /\ thrown' = None
    /\ UNCHANGED <<body, pc, detector, statistics, config, response, rebuild,
                   observed>>

\* detector.detectKeywords(words): keywords is the list returned, previous
\* the list the call before returned; a call that throws returns nothing.
Detect ==
    /\ pc = "ready"
    /\ LET error == detectKeywordsError(detector[1], body.wordsType,
                                        body.words)
       IN IF IsPresent(error)
          THEN /\ thrown' = error
               /\ detectedKeywords' = None
               /\ keywords' = None
               /\ previous' = previous
          ELSE /\ thrown' = None
               /\ detectedKeywords' =
                     Some(AccumulateKeywords(detector[1], body.words))
               /\ keywords' = Some(detectKeywords(detector[1], body.words))
               /\ previous' = keywords
    /\ UNCHANGED <<body, pc, detector, statistics, config, response, rebuild,
                   observed>>

\* detector.getStatistics(keywords)
GetStatistics ==
    /\ pc = "ready"
    /\ IsPresent(keywords)
    /\ statistics' = Some(getStatistics(keywords[1]))
    /\ UNCHANGED <<body, pc, detector, detectedKeywords, keywords, config,
                   response, previous, thrown, rebuild, observed>>

\* getConfig leaving the targetFields reversed in place on the detector
GetConfigReversingFields ==
    /\ pc = "ready"
    /\ LET d == detector[1]
           n == Len(d.targetFields)
           reversed == [k \in 1..n |-> d.targetFields[n + 1 - k]]
       IN /\ detector' = Some([d EXCEPT !.targetFields = reversed])
          /\ config' = Some(getConfig([d EXCEPT !.targetFields = reversed]))
    /\ UNCHANGED <<body, pc, detectedKeywords, keywords, statistics, response,
                   previous, thrown, rebuild, observed>>

\* detector.getConfig()
GetConfig ==
    /\ pc = "ready"
    /\ config' = Some(getConfig(detector[1]))
    /\ UNCHANGED <<body, pc, detector, detectedKeywords, keywords,
                   statistics, response, previous, thrown, rebuild, observed>>

\* detector.setTargetFields(fields), which the caller survives when it
\* throws; the caller drops the results obtained under the previous target
\* fields.
SetTargetFields ==
    /\ pc = "ready"
    /\ \E fields \in ReconfigFields :
          LET made == setTargetFields(detector[1], fields)
          IN /\ detector' = Some(made.detector)
             /\ thrown' = IF made.threw THEN Some("TypeError") ELSE None
    /\ detectedKeywords' = None
    /\ keywords' = None
    /\ statistics' = None
    /\ config' = None
    /\ previous' = None
    /\ UNCHANGED <<body, pc, response, rebuild, observed>>

\* POST /detect with the request body
HandleDetect ==
    /\ pc = "start"
    /\ response' = Some(handleDetect(body))
    /\ pc' = "responded"
    /\ UNCHANGED <<body, detector, detectedKeywords, keywords, statistics,
                   config, previous, thrown, rebuild, observed>>

Next ==
    \/ Construct
    \/ Detect
    \/ GetStatistics
    \/ GetConfig
    \/ SetTargetFields
    \/ HandleDetect

Spec == Init /\ [][Next]_vars

(***************************************************************************)
(* One detector shared by several callers.  setTargetFields is followed    *)
(* field by field: rebuild holds the fields that _buildKeywordIndex has    *)
(* still to index while the call is on the stack.  The engine runs a call  *)
(* to its end before it starts another one (no await in either method),    *)
(* so a detectKeywords call starts only when no rebuild is on the stack.   *)
(* observed is the targetFields and the index that the last detectKeywords *)
(* call read.                                                              *)
(***************************************************************************)
SharedRequests ==
    { Request(LineWords(atoms), None, None, cs, mw) :
        atoms \in { <<"DNA", "energy">>, <<"free", "energy", "flow">> },
        cs \in {None, Some(TRUE)}, mw \in {None, Some(FALSE)} }

SharedReconfigFields ==
    { <<"genetics", "thermodynamics">>, <<"ecology", "classical mechanics">>,
      <<"constructor", "genetics">> }

SharedInit ==
    /\ body \in SharedRequests
    /\ pc = "ready"
    /\ detector = Some(NewKeywordDetector(ConfigOf(body)).detector)
    /\ detectedKeywords = None
    /\ keywords = None
    /\ statistics = None
    /\ config = None
    /\ response = None
    /\ previous = None
    /\ thrown = None
    /\ rebuild = None
    /\ observed = None

\* setTargetFields assigns targetFields and _buildKeywordIndex starts from an
\* empty Map
BeginSetTargetFields ==
    /\ rebuild = None
    /\ \E fields \in SharedReconfigFields :
          /\ detector' = Some([detector[1] EXCEPT
                                 !.targetFields = fields,
                                 !.keywordIndex = EmptyIndex])
          /\ rebuild' = Some(fields)
    /\ thrown' = None
    /\ UNCHANGED <<body, pc, detectedKeywords, keywords, statistics, config,
                   response, previous, observed>>

\* One round of this.targetFields.forEach: the keywords of the field are
\* added, a name that is no key is passed over, and a name inherited from
\* Object.prototype ends the call with a TypeError.
IndexNextField ==
    /\ IsPresent(rebuild)
    /\ Len(rebuild[1]) > 0
    /\ LET field == Head(rebuild[1])
       IN IF field \in DOMAIN FIELD_KEYWORDS
          THEN /\ detector' =
                     Some([detector[1] EXCEPT
                             !.keywordIndex =
                                 AddKeywords(@, detector[1].caseSensitive,
                                             field, FIELD_KEYWORDS[field])])
               /\ rebuild' = Some(Tail(rebuild[1]))
               /\ thrown' = thrown
          ELSE IF field \in PrototypeKeys
          THEN /\ detector' = detector
               /\ rebuild' = None
               /\ thrown' = Some("TypeError")
          ELSE /\ detector' = detector
               /\ rebuild' = Some(Tail(rebuild[1]))
               /\ thrown' = thrown
    /\ UNCHANGED <<body, pc, detectedKeywords, keywords, statistics, config,
                   response, previous, observed>>

\* setTargetFields returns
EndSetTargetFields ==
    /\ rebuild = Some(<< >>)
    /\ rebuild' = None
    /\ UNCHANGED <<body, pc, detector, detectedKeywords, keywords,
                   statistics, config, response, previous, thrown, observed>>

\* A caller's detectKeywords(words), from its start to its return
SharedDetect ==
    /\ rebuild = None
    /\ observed' = Some([targetFields |-> detector[1].targetFields,
                         keywordIndex |-> detector[1].keywordIndex])
    /\ keywords' = Some(detectKeywords(detector[1], body.words))
    /\ UNCHANGED <<body, pc, detector, detectedKeywords, statistics, config,
                   response, previous, thrown, rebuild>>

SharedNext ==
    \/ BeginSetTargetFields
    \/ IndexNextField
    \/ EndSetTargetFields
    \/ SharedDetect

SharedSpec == SharedInit /\ [][SharedNext]_vars

(***************************************************************************)
(* Properties                                                              *)
(***************************************************************************)
Range(seq) == {seq[k] : k \in DOMAIN seq}

Succeeded == IsPresent(response) /\ response[1].success

\* The token texts of the window of len tokens starting at 0-based index i
WindowText(words, i, len) ==
    Join([k \in 1..len |-> TextOf(words[i + k])])

Windows(words) ==
    {w \in (0..Len(words)) \X (1..MaxPhraseLength) : w[1] + w[2] <= Len(words)}

\* The window is registered in the index of detector d
Registered(d, words, i, len) ==
    Normalize(d.caseSensitive, WindowText(words, i, len))
        \in DOMAIN d.keywordIndex

Disjoint(list) ==
    \A a, b \in DOMAIN list :
        list[a].wordIndices # list[b].wordIndices
        => Range(list[a].wordIndices) \cap Range(list[b].wordIndices) = {}

\* C1: in the list returned by one detectKeywords call (directly or through
\* POST /detect) two records with different wordIndices share no token index.
C1_NonOverlap ==
    /\ IsPresent(keywords) => Disjoint(keywords[1])
    /\ Succeeded => Disjoint(response[1].keywords)

\* A result with two different spans, one of which beat an overlapping
\* registered window.
C1_Witness ==
    /\ IsPresent(keywords)
    /\ detector[1].multiWordMatching
    /\ \E a, b \in DOMAIN keywords[1] :
          /\ keywords[1][a].wordIndices # keywords[1][b].wordIndices
          /\ Len(keywords[1][a].wordIndices) >= 2
          /\ \E w \in Windows(body.words) :
                /\ Registered(detector[1], body.words, w[1], w[2])
                /\ WordIndices(w[1], w[2]) # keywords[1][a].wordIndices
                /\ Range(WordIndices(w[1], w[2]))
                      \cap Range(keywords[1][a].wordIndices) # {}

HasSpan(list, span) == \E k \in DOMAIN list : list[k].wordIndices = span

\* Tokens i and i+1 form a registered 2-word phrase and one of them alone is
\* a registered 1-word phrase.
NestedPhraseAt(d, words, i) ==
    /\ Registered(d, words, i, 2)
    /\ Registered(d, words, i, 1) \/ Registered(d, words, i + 1, 1)

\* C2 as stated: whenever tokens i, i+1 form a registered 2-word phrase and
\* one of them is a registered word, the 2-word match for [i, i+1] is
\* returned and no 1-word match at i or i+1 is.
C2_LongestMatchAlways ==
    (IsPresent(keywords) /\ detector[1].multiWordMatching) =>
        \A i \in 0..(Len(body.words) - 2) :
            NestedPhraseAt(detector[1], body.words, i) =>
                /\ HasSpan(keywords[1], <<i, i + 1>>)
                /\ ~HasSpan(keywords[1], <<i>>)
                /\ ~HasSpan(keywords[1], <<i + 1>>)

\* No token of [i, i+1] is consumed by a matched window of 3 or 4 tokens or
\* by a matched 2-token window that starts at i-1.
NotPreempted(list, i) ==
    \A k \in DOMAIN list :
        /\ Len(list[k].wordIndices) >= 3
              => Range(list[k].wordIndices) \cap {i, i + 1} = {}
        /\ list[k].wordIndices # <<i - 1, i>>

\* C2 (amended): if moreover the window is not preempted by a longer or an
\* earlier matched window, the 2-word match for [i, i+1] is produced, it is
\* returned exactly when its mean confidence reaches minConfidence, and no
\* 1-word match at i or i+1 is returned.
C2_LongestMatchPrecedence ==
    (IsPresent(keywords) /\ detector[1].multiWordMatching) =>
        \A i \in 0..(Len(body.words) - 2) :
            (NestedPhraseAt(detector[1], body.words, i)
             /\ NotPreempted(detectedKeywords[1], i)) =>
                /\ HasSpan(detectedKeywords[1], <<i, i + 1>>)
                /\ \A k \in DOMAIN detectedKeywords[1] :
                      detectedKeywords[1][k].wordIndices = <<i, i + 1>> =>
                        (detectedKeywords[1][k] \in Range(keywords[1])
                         <=> detectedKeywords[1][k].confidence
                               >= detector[1].minConfidence)
                /\ ~HasSpan(keywords[1], <<i>>)
                /\ ~HasSpan(keywords[1], <<i + 1>>)

\* A returned 2-word match whose second token alone is a registered word
C2_Witness ==
    /\ IsPresent(keywords)
    /\ detector[1].multiWordMatching
    /\ \E i \in 0..(Len(body.words) - 2) :
          /\ NestedPhraseAt(detector[1], body.words, i)
          /\ NotPreempted(detectedKeywords[1], i)
          /\ HasSpan(keywords[1], <<i, i + 1>>)

\* The token's own confidence, 0.9 only when it carries none
OwnConfidence(word) ==
    IF IsPresent(word.confidence) THEN word.confidence[1]
    ELSE DefaultTokenConfidence

RECURSIVE SumOwnConfidence(_, _)
SumOwnConfidence(words, indices) ==
    IF Len(indices) = 0 THEN 0
    ELSE OwnConfidence(words[Head(indices) + 1])
         + SumOwnConfidence(words, Tail(indices))

\* C3: the confidence of every match is the arithmetic mean of its tokens'
\* own confidences, 0.9 standing in only for an absent confidence.
C3_MeanOfOwnConfidence ==
    IsPresent(detectedKeywords) =>
        \A k \in DOMAIN detectedKeywords[1] :
            LET kw == detectedKeywords[1][k]
            IN kw.confidence * Len(kw.wordIndices)
                 = SumOwnConfidence(body.words, kw.wordIndices)

\* The accumulated list and the detector of the request, as POST /detect
\* obtains them
RequestDetector == NewKeywordDetector(ConfigOf(body)).detector

RequestAccumulated == AccumulateKeywords(RequestDetector, body.words)

AllAtLeast(list, m) == \A k \in DOMAIN list : list[k].confidence >= m

\* C4: no returned match has a confidence below the detector's minConfidence,
\* and the total of the statistics returned by POST /detect counts exactly
\* the matches that passed the threshold.
C4_ThresholdFiltering ==
    /\ IsPresent(keywords) => AllAtLeast(keywords[1], detector[1].minConfidence)
    /\ Succeeded =>
          LET data == response[1]
          IN /\ AllAtLeast(data.keywords, data.config.minConfidence)
             /\ data.statistics.total = Len(data.keywords)
             /\ data.statistics.total =
                   Cardinality({k \in DOMAIN RequestAccumulated :
                                  RequestAccumulated[k].confidence
                                    >= data.config.minConfidence})

\* A successful response that kept some matches and dropped others
C4_Witness ==
    /\ Succeeded
    /\ response[1].statistics.total > 0
    /\ response[1].statistics.total < Len(RequestAccumulated)

\* C5: for a supplied minConfidence m in [0,1] the result holds exactly the
\* accumulated matches whose confidence is at least m.
C5_SuppliedThreshold ==
    (/\ IsPresent(keywords)
     /\ IsPresent(body.minConfidence)
     /\ body.minConfidence[1] \in 0..One) =>
        \A k \in DOMAIN detectedKeywords[1] :
            detectedKeywords[1][k] \in Range(keywords[1])
            <=> detectedKeywords[1][k].confidence >= body.minConfidence[1]

SetMin(S) == CHOOSE m \in S : \A e \in S : m <= e

SetMax(S) == CHOOSE m \in S : \A e \in S : m >= e

\* The minimal axis-aligned box enclosing the tokens at the given indices
EnclosingBox(words, indices) ==
    LET toks == {words[j + 1] : j \in Range(indices)}
        left == SetMin({t.x : t \in toks})
        top == SetMin({t.y : t \in toks})
    IN [x |-> left, y |-> top,
        width |-> SetMax({t.x + t.width : t \in toks}) - left,
        height |-> SetMax({t.y + t.height : t \in toks}) - top]

RegisteringFields(d, normalizedText) ==
    {f \in Range(d.targetFields) \cap DOMAIN FIELD_KEYWORDS :
        \E kw \in Range(FIELD_KEYWORDS[f]) :
            Normalize(d.caseSensitive, kw) = normalizedText}

RecordsOfSpan(list, span) == {k \in DOMAIN list : list[k].wordIndices = span}

\* C7: a matched span whose text is registered under k >= 2 target fields
\* yields exactly one record per registered field, the records agreeing on
\* wordIndices, position and confidence and differing pairwise in field.
C7_OneMatchPerField ==
    IsPresent(detectedKeywords) =>
        LET list == detectedKeywords[1]
        IN \A k \in DOMAIN list :
              LET fields == RegisteringFields(detector[1],
                                              list[k].normalizedText)
                  same == RecordsOfSpan(list, list[k].wordIndices)
              IN Cardinality(fields) >= 2 =>
                   /\ Cardinality(same) = Cardinality(fields)
                   /\ {list[j].field : j \in same} = fields
                   /\ \A i, j \in same :
                         /\ list[i].position = list[j].position
                         /\ list[i].confidence = list[j].confidence
                         /\ i # j => list[i].field # list[j].field

\* C8: two distinct records of one result with the same wordIndices differ in
\* field and agree on every other attribute.
C8_SameSpanDiffersByField ==
    IsPresent(keywords) =>
        \A i, j \in DOMAIN keywords[1] :
            (i # j /\ keywords[1][i].wordIndices = keywords[1][j].wordIndices)
            => /\ keywords[1][i].field # keywords[1][j].field
               /\ [keywords[1][i] EXCEPT !.field = ""]
                    = [keywords[1][j] EXCEPT !.field = ""]

InReadingOrder(list) ==
    \A k \in 1..(Len(list) - 1) :
        \/ list[k].position.y < list[k + 1].position.y
        \/ /\ list[k].position.y = list[k + 1].position.y
           /\ list[k].position.x <= list[k + 1].position.x

\* C9: the returned list is ordered by position.y and, among equal y, by
\* position.x.
C9_ReadingOrder ==
    /\ IsPresent(keywords) => InReadingOrder(keywords[1])
    /\ Succeeded => InReadingOrder(response[1].keywords)

\* A result of several records that the sort had to reorder
C9_Witness ==
    /\ IsPresent(keywords)
    /\ Len(keywords[1]) >= 2
    /\ keywords[1] #
          FilterByConfidence(detectedKeywords[1], detector[1].minConfidence)
    /\ \E k \in 1..(Len(keywords[1]) - 1) :
          keywords[1][k].position.y < keywords[1][k + 1].position.y

\* The texts agree under the case mode
SameText(caseSensitive, a, b) ==
    IF caseSensitive THEN a = b ELSE ToLowerCase(a) = ToLowerCase(b)

\* Some token of the window belongs to a record of another span
Consumed(list, i, len) ==
    \E k \in DOMAIN list :
        /\ list[k].wordIndices # WordIndices(i, len)
        /\ Range(list[k].wordIndices) \cap Range(WordIndices(i, len)) # {}

\* C10: a window matches a keyword held in the index exactly when the texts
\* are equal, character for character if caseSensitive and after lowercasing
\* otherwise: every record pairs such texts, and every such pair is recorded
\* unless another match consumed a token of the window.
C10_CaseSensitivity ==
    IsPresent(detectedKeywords) =>
        LET d == detector[1]
            list == detectedKeywords[1]
        IN /\ \A k \in DOMAIN list :
                 SameText(d.caseSensitive, list[k].text,
                          WindowText(body.words, list[k].wordIndices[1],
                                     Len(list[k].wordIndices)))
           /\ \A w \in Windows(body.words) :
                 \A p \in DOMAIN d.keywordIndex :
                     \A e \in Range(d.keywordIndex[p]) :
                         (/\ w[2] >= 1
                          /\ d.multiWordMatching \/ w[2] = 1
                          /\ SameText(d.caseSensitive, e.keyword,
                                      WindowText(body.words, w[1], w[2]))
                          /\ ~Consumed(list, w[1], w[2]))
                         => \E k \in DOMAIN list :
                               /\ list[k].wordIndices = WordIndices(w[1], w[2])
                               /\ list[k].field = e.field
                               /\ list[k].text = e.keyword

\* A case-insensitive 2-word match of tokens that differ in case from the
\* keyword
C10_Witness ==
    /\ IsPresent(detectedKeywords)
    /\ ~detector[1].caseSensitive
    /\ \E k \in DOMAIN detectedKeywords[1] :
          /\ Len(detectedKeywords[1][k].wordIndices) = 2
          /\ detectedKeywords[1][k].text #
                WindowText(body.words, detectedKeywords[1][k].wordIndices[1], 2)

\* A detector constructed anew with the configuration that d holds
FreshDetector(d) ==
    NewKeywordDetector([targetFields |-> Some(d.targetFields),
                        minConfidence |-> Some(d.minConfidence),
                        caseSensitive |-> Some(d.caseSensitive),
                        multiWordMatching |-> Some(d.multiWordMatching)])

C12_ArrayValidation ==
    [][Detect =>
        /\ body.wordsType # "array"
              <=> thrown' = Some("words must be an array of word objects")
        /\ body.wordsType # "array" => keywords' = None
        /\ (body.wordsType = "array" /\ body.words = << >>)
              => (thrown' = None /\ keywords' = Some(<< >>))]_vars

\* The call threw on an argument that is a non-empty string
C12_Witness ==
    /\ body.wordsType = "string"
    /\ thrown = Some("words must be an array of word objects")
    /\ keywords = None

Incomplete(word) == \E f \in TokenFields : f \notin DOMAIN word

\* C13: detectKeywords returns no list for an array that holds a token
\* without text or without one of x, y, width, height: it throws.
C13_RejectsIncompleteTokens ==
    (\E k \in DOMAIN body.words : Incomplete(body.words[k])) =>
        keywords = None

\* The request is one that the boundary has to reject
InvalidRequest(b) ==
    \/ b.wordsType # "array"
    \/ \E k \in DOMAIN b.words : Incomplete(b.words[k])
    \/ b.targetFieldsType # "array"
    \/ /\ IsPresent(b.targetFields)
       /\ \E f \in Range(b.targetFields[1]) : f \notin DOMAIN FIELD_KEYWORDS
    \/ /\ IsPresent(b.minConfidence)
       /\ \/ b.minConfidenceType # "number"
          \/ b.minConfidence[1] < 0
          \/ b.minConfidence[1] > One

\* C14: POST /detect answers a request whose words, tokens, targetFields or
\* minConfidence are invalid with status 400 and success false, and has
\* constructed no detector and run no detection.
C14_ClientErrors ==
    (pc = "responded" /\ InvalidRequest(body)) =>
        /\ response[1].status = 400
        /\ ~response[1].success
        /\ "keywords" \notin DOMAIN response[1]

\* The fields that have an entry in the index
IndexedFields(index) ==
    UNION { {index[p][k].field : k \in DOMAIN index[p]} : p \in DOMAIN index }

\* The detector is as the constructor left it
AsConstructed ==
    /\ pc = "ready"
    /\ detector[1].targetFields = ResolveTargetFields(body.targetFields)

\* C15: constructing a detector from a list of strings never fails, and the
\* fields that have entries in the index are the Dictionary fields of the
\* list: a name that is no Dictionary field contributes nothing.
C15_ConstructNeverFails ==
    /\ pc # "failed"
    /\ AsConstructed =>
          IndexedFields(detector[1].keywordIndex)
              = Range(detector[1].targetFields) \cap DOMAIN FIELD_KEYWORDS

\* The sum of the values of the function fn over the subset S of its domain
RECURSIVE SumOver(_, _)
SumOver(fn, S) ==
    IF S = {} THEN 0
    ELSE LET e == CHOOSE x \in S : TRUE
         IN fn[e] + SumOver(fn, S \ {e})

\* st is the statistics of the Match list M
StatisticsOf(M, st) ==
    /\ st.total = Len(M)
    /\ DOMAIN st.byField = {M[k].field : k \in DOMAIN M}
    /\ \A f \in DOMAIN st.byField :
          st.byField[f] = Len(SelectSeq(M, LAMBDA kw : kw.field = f))
    /\ SumOver(st.byField, DOMAIN st.byField) = st.total
    /\ IF Len(M) = 0
       THEN st.averageConfidence[1] = 0
       ELSE st.averageConfidence[1] * Len(M)
              = SumOver([k \in DOMAIN M |-> M[k].confidence], DOMAIN M)
                  * st.averageConfidence[2]
    /\ st.averageConfidence[2] > 0
    /\ st.uniqueTerms =
          Cardinality({k \in DOMAIN M :
                         \A j \in 1..(k - 1) :
                             M[j].normalizedText # M[k].normalizedText})
    /\ Len(M) = 0 =>
          /\ st.total = 0
          /\ DOMAIN st.byField = {}
          /\ st.uniqueTerms = 0

\* C16: getStatistics returns the total, the count of records per field
\* present, the mean confidence (0 for the empty list) and the number of
\* distinct normalizedText values of the list it is given, directly and in
\* the response of POST /detect.
C16_Statistics ==
    /\ IsPresent(statistics) => StatisticsOf(keywords[1], statistics[1])
    /\ Succeeded => StatisticsOf(response[1].keywords, response[1].statistics)

\* Statistics of a list in which one term was matched under several fields
C16_Witness ==
    /\ IsPresent(statistics)
    /\ statistics[1].total >= 3
    /\ statistics[1].uniqueTerms >= 2
    /\ statistics[1].uniqueTerms < statistics[1].total
    /\ Cardinality(DOMAIN statistics[1].byField) >= 2

\* The number of whitespace-delimited words of a keyword
WordsIn(keyword) == Cardinality({k \in DOMAIN keyword : keyword[k] # Sp})

\* The key of a keyword: the keyword itself when case counts, its lowercase
\* form otherwise
KeyOf(caseSensitive, keyword) ==
    IF caseSensitive THEN keyword
    ELSE [k \in DOMAIN keyword |-> LowerAtom(keyword[k])]

\* The entries (field, keyword, wordCount) of the fields of F
EntriesOf(F) ==
    UNION { { [field |-> f, keyword |-> kw, wordCount |-> WordsIn(kw)] :
                kw \in Range(FIELD_KEYWORDS[f]) } :
            f \in Range(F) \cap DOMAIN FIELD_KEYWORDS }

\* index holds exactly the entries of the fields of F, each under its key
IsIndexOf(index, F, caseSensitive) ==
    /\ DOMAIN index = {KeyOf(caseSensitive, e.keyword) : e \in EntriesOf(F)}
    /\ \A p \in DOMAIN index :
          Range(index[p]) =
              {e \in EntriesOf(F) : KeyOf(caseSensitive, e.keyword) = p}

DictionaryRank(field) ==
    CHOOSE k \in DOMAIN getAllFields : getAllFields[k] = field

\* The records of the list that have the wordIndices of record k, in order
FieldsOfSpan(list, k) ==
    LET same == SelectSeq(list,
                    LAMBDA kw : kw.wordIndices = list[k].wordIndices)
    IN [j \in DOMAIN same |-> same[j].field]

\* The fields of a bucket, in order
FieldsOfBucket(bucket) == [j \in DOMAIN bucket |-> bucket[j].field]

InDictionaryOrder(fields) ==
    \A a, b \in DOMAIN fields :
        a < b => DictionaryRank(fields[a]) <= DictionaryRank(fields[b])

\* The fields appear in the order of the list F
InOrderOf(fields, F) ==
    \A a, b \in DOMAIN fields :
        a < b => \E i, j \in DOMAIN F :
                    i <= j /\ F[i] = fields[a] /\ F[j] = fields[b]

\* C18 as stated: the entries of every bucket and the records emitted for a
\* span are in the Dictionary's field order, however the target fields were
\* supplied.
C18_DictionaryOrder ==
    IsPresent(detector) =>
        /\ \A p \in DOMAIN detector[1].keywordIndex :
              InDictionaryOrder(FieldsOfBucket(detector[1].keywordIndex[p]))
        /\ IsPresent(keywords) =>
              \A k \in DOMAIN keywords[1] :
                  InDictionaryOrder(FieldsOfSpan(keywords[1], k))

\* C18 (amended): the entries of every bucket and the records emitted for a
\* span are in the order in which their fields stand in the detector's
\* targetFields.
C18_TargetFieldsOrder ==
    IsPresent(detector) =>
        /\ \A p \in DOMAIN detector[1].keywordIndex :
              InOrderOf(FieldsOfBucket(detector[1].keywordIndex[p]),
                        detector[1].targetFields)
        /\ IsPresent(keywords) =>
              \A k \in DOMAIN keywords[1] :
                  InOrderOf(FieldsOfSpan(keywords[1], k),
                            detector[1].targetFields)

\* Records of one span returned in the order of the supplied target fields,
\* which is not the Dictionary's order
C18_Witness ==
    /\ IsPresent(keywords)
    /\ IsPresent(body.targetFields)
    /\ \E k \in DOMAIN keywords[1] :
          /\ Len(FieldsOfSpan(keywords[1], k)) >= 2
          /\ ~InDictionaryOrder(FieldsOfSpan(keywords[1], k))

\* C19: at every moment the index is the index of the detector's current
\* targetFields and caseSensitive, and detectKeywords returns only matches
\* of the current targetFields.
C19_IndexFollowsTargetFields ==
    IsPresent(detector) =>
        /\ IsIndexOf(detector[1].keywordIndex, detector[1].targetFields,
                     detector[1].caseSensitive)
        /\ IsPresent(keywords) =>
              \A k \in DOMAIN keywords[1] :
                  keywords[1][k].field \in Range(detector[1].targetFields)

\* C20: every detectKeywords call on a shared detector reads targetFields
\* together with the complete index of these targetFields, never an empty or
\* half-filled index and never new targetFields with the old index.
C20_NoPartialIndex ==
    IsPresent(observed) =>
        IsIndexOf(observed[1].keywordIndex, observed[1].targetFields,
                  detector[1].caseSensitive)

HeldEntries(index) == UNION { Range(index[p]) : p \in DOMAIN index }

EchoesDetector(cfg, d) ==
    /\ cfg.targetFields = d.targetFields
    /\ cfg.minConfidence = d.minConfidence
    /\ cfg.caseSensitive = d.caseSensitive
    /\ cfg.multiWordMatching = d.multiWordMatching

\* C22 as stated: getConfig echoes the detector's configuration and
\* indexedKeywords is the number of entries over all buckets.
C22_CountsEntries ==
    IsPresent(config) =>
        /\ EchoesDetector(config[1], detector[1])
        /\ config[1].indexedKeywords =
              CountEntries(detector[1].keywordIndex,
                           DOMAIN detector[1].keywordIndex)

\* C22 (amended): getConfig echoes the detector's configuration and
\* indexedKeywords is the number of distinct normalized keywords among the
\* entries held in the index (its buckets), directly and in the response of
\* POST /detect.
C22_CountsDistinctKeys ==
    /\ IsPresent(config) =>
          /\ EchoesDetector(config[1], detector[1])
          /\ config[1].indexedKeywords =
                Cardinality({KeyOf(detector[1].caseSensitive, e.keyword) :
                               e \in HeldEntries(detector[1].keywordIndex)})
    /\ Succeeded =>
          /\ EchoesDetector(response[1].config, RequestDetector)
          /\ response[1].config.indexedKeywords =
                Cardinality({KeyOf(RequestDetector.caseSensitive, e.keyword) :
                               e \in HeldEntries(RequestDetector.keywordIndex)})

\* A configuration read from an index that holds more entries than keys
C22_Witness ==
    /\ IsPresent(config)
    /\ config[1].indexedKeywords >= 2
    /\ config[1].indexedKeywords <
          CountEntries(detector[1].keywordIndex,
                       DOMAIN detector[1].keywordIndex)

\* Every element of the array is a Token: it has a text and a box
TokenArray(b) ==
    /\ b.wordsType = "array"
    /\ \A k \in DOMAIN b.words : ~Incomplete(b.words[k])

\* The list the multi-word procedure returns when the only phrase length it
\* tries is 1
RestrictedToOneWord(d, words) ==
    SortByPosition(
        FilterByConfidence(
            ScanLengths(d, words, 1,
                        [detectedKeywords |-> << >>, processedIndices |-> {},
                         threw |-> FALSE]).detectedKeywords,
            d.minConfidence),
        << >>)

\* C23: with multiWordMatching disabled detectKeywords returns, for every
\* array of tokens, the list of the multi-word procedure restricted to phrase
\* length 1, and every record covers one token, the records of one token
\* coming from one bucket.
C23_SingleWordMode ==
    (/\ IsPresent(keywords)
     /\ ~detector[1].multiWordMatching
     /\ TokenArray(body)) =>
        /\ keywords[1] = RestrictedToOneWord(detector[1], body.words)
        /\ \A k \in DOMAIN keywords[1] :
              /\ Len(keywords[1][k].wordIndices) = 1
              /\ Cardinality(RecordsOfSpan(keywords[1],
                                           keywords[1][k].wordIndices))
                    = Len(IndexGet(detector[1].keywordIndex,
                                   keywords[1][k].normalizedText))

\* Single-word matches returned inside a window that is a registered 2-word
\* phrase
C23_Witness ==
    /\ IsPresent(keywords)
    /\ ~detector[1].multiWordMatching
    /\ TokenArray(body)
    /\ \E i \in 0..(Len(body.words) - 2) :
          /\ Registered(detector[1], body.words, i, 2)
          /\ HasSpan(keywords[1], <<i>>) \/ HasSpan(keywords[1], <<i + 1>>)

\* The request with targetFields left out
WithoutTargetFields(b) == [b EXCEPT !.targetFields = None]

\* C24: a detector constructed with the empty targetFields array has the
\* index of a detector constructed without targetFields, and POST /detect
\* with targetFields [] finds what it finds without targetFields.
C24_EmptyMeansAllFields ==
    body.targetFields = Some(<< >>) =>
        /\ AsConstructed =>
              detector[1].keywordIndex =
                 NewKeywordDetector(ConfigOf(WithoutTargetFields(body)))
                    .detector.keywordIndex
        /\ Succeeded =>
              response[1].keywords =
                 handleDetect(WithoutTargetFields(body)).keywords

\* A record of the list covers a token of the window (i, len) and belongs to
\* a window that is longer, or as long and starting before i
BeatenBy(list, i, len) ==
    \E k \in DOMAIN list :
        LET span == list[k].wordIndices
        IN /\ Range(span) \cap Range(WordIndices(i, len)) # {}
           /\ \/ Len(span) > len
              \/ Len(span) = len /\ span[1] < i

\* C25: in multi-word mode a registered window is emitted (before the
\* confidence filter) exactly when no token of it belongs to an emitted
\* window that is longer, or as long with a smaller start; a registered
\* window that is not emitted overlaps an emitted one, and every emitted
\* window is registered.
C25_GreedyOverlap ==
    (IsPresent(detectedKeywords) /\ detector[1].multiWordMatching) =>
        LET d == detector[1]
            list == detectedKeywords[1]
        IN /\ \A w \in Windows(body.words) :
                 Registered(d, body.words, w[1], w[2]) =>
                    /\ HasSpan(list, WordIndices(w[1], w[2]))
                          <=> ~BeatenBy(list, w[1], w[2])
                    /\ ~HasSpan(list, WordIndices(w[1], w[2]))
                          => Consumed(list, w[1], w[2])
           /\ \A k \in DOMAIN list :
                 /\ Len(list[k].wordIndices) \in 1..MaxPhraseLength
                 /\ Registered(d, body.words, list[k].wordIndices[1],
                               Len(list[k].wordIndices))

\* A registered window lost to an emitted window of its length that starts
\* before it, and another lost to a longer one
C25_Witness ==
    /\ IsPresent(detectedKeywords)
    /\ detector[1].multiWordMatching
    /\ \E w \in Windows(body.words) :
          /\ Registered(detector[1], body.words, w[1], w[2])
          /\ ~HasSpan(detectedKeywords[1], WordIndices(w[1], w[2]))
          /\ \E k \in DOMAIN detectedKeywords[1] :
                /\ Len(detectedKeywords[1][k].wordIndices) = w[2]
                /\ detectedKeywords[1][k].wordIndices[1] = w[1] - 1
    /\ \E w \in Windows(body.words) :
          /\ Registered(detector[1], body.words, w[1], w[2])
          /\ \E k \in DOMAIN detectedKeywords[1] :
                /\ Len(detectedKeywords[1][k].wordIndices) > w[2]
                /\ w[1] \in Range(detectedKeywords[1][k].wordIndices)

\* The record is well formed for detector d and the token array words
WellFormedMatch(m, d, words) ==
    LET span == m.wordIndices
        L == Len(span)
    IN /\ L \in 1..MaxPhraseLength
       /\ span[1] >= 0
       /\ span[1] + L <= Len(words)
       /\ \A j \in 1..L : span[j] = span[1] + j - 1
       /\ m.normalizedText =
             Normalize(d.caseSensitive, WindowText(words, span[1], L))
       /\ m.field \in Range(d.targetFields)
       /\ m.field \in DOMAIN FIELD_KEYWORDS
       /\ \E kw \in Range(FIELD_KEYWORDS[m.field]) :
             /\ m.text = kw
             /\ KeyOf(d.caseSensitive, kw) = m.normalizedText

\* C26: every returned match has wordIndices i..i+L-1 inside the token array
\* with 1 <= L <= 4, normalizedText the normalized single-space join of the
\* texts of these tokens, a field of the detector's targetFields, and as
\* text a Dictionary keyword of that field that normalizes to normalizedText.
C26_WellFormedMatches ==
    /\ IsPresent(keywords) =>
          \A k \in DOMAIN keywords[1] :
              WellFormedMatch(keywords[1][k], detector[1], body.words)
    /\ Succeeded =>
          \A k \in DOMAIN response[1].keywords :
              WellFormedMatch(response[1].keywords[k], RequestDetector,
                              body.words)

\* A returned phrase match that starts after the first token and whose
\* keyword differs in case from its normalized text
C26_Witness ==
    /\ IsPresent(keywords)
    /\ \E k \in DOMAIN keywords[1] :
          /\ Len(keywords[1][k].wordIndices) >= 2
          /\ keywords[1][k].wordIndices[1] >= 1
          /\ keywords[1][k].text # keywords[1][k].normalizedText

\* The accumulated records that the confidence filter removes
Dropped(list, minConfidence) ==
    {k \in DOMAIN list : list[k].confidence < minConfidence}

\* C27: when a matched window's confidence is below minConfidence, the
\* returned list holds no record that covers one of its tokens: the tokens
\* stay consumed although the match itself is filtered out.
C27_ConsumedThoughFiltered ==
    IsPresent(keywords) =>
        \A k \in Dropped(detectedKeywords[1], detector[1].minConfidence) :
            \A j \in DOMAIN keywords[1] :
                Range(keywords[1][j].wordIndices)
                    \cap Range(detectedKeywords[1][k].wordIndices) = {}

\* A 2-word match was filtered out although one of its tokens alone is a
\* registered word whose own confidence reaches minConfidence
C27_Witness ==
    /\ IsPresent(keywords)
    /\ \E k \in Dropped(detectedKeywords[1], detector[1].minConfidence) :
          LET span == detectedKeywords[1][k].wordIndices
          IN /\ Len(span) = 2
             /\ \E i \in Range(span) :
                   /\ Registered(detector[1], body.words, i, 1)
                   /\ ConfidenceOrDefault(body.words[i + 1].confidence)
                         >= detector[1].minConfidence

\* The configuration is one both variants are specified for
TypedConfig(b) ==
    /\ WellTypedConfig(b)
    /\ b.wordsType = "array"
    /\ IsPresent(b.minConfidence) => b.minConfidence[1] \in 0..One

\* C28: for every such configuration and token array the JavaScript detector
\* and the TypeScript detector agree: both constructors fail or neither, and
\* detectKeywords and getConfig return the same in both.
C28_VariantsAgree ==
    TypedConfig(body) =>
        LET ts == NewKeywordDetectorTS(ConfigOf(body))
        IN /\ pc = "failed" => ts.threw
           /\ AsConstructed =>
                 /\ ~ts.threw
                 /\ IsPresent(keywords) =>
                       keywords[1] = detectKeywords(ts.detector, body.words)
                 /\ IsPresent(config) => config[1] = getConfig(ts.detector)

\* The field names as the boundary's hasField identifies them
AsIdentified(fields) == [k \in DOMAIN fields |-> LowerTrimField(fields[k])]

\* C29: when POST /detect accepts the targetFields of a request, the index
\* of its detector holds the Dictionary keywords of every accepted field as
\* hasField identified it, and the matches returned are those of these
\* fields.
C29_AcceptedFieldsAreIndexed ==
    (/\ pc = "responded"
     /\ body.targetFieldsType = "array"
     /\ IsPresent(body.targetFields)
     /\ response[1].status # 400) =>
        LET named == AsIdentified(body.targetFields[1])
        IN /\ Succeeded
           /\ IsIndexOf(RequestDetector.keywordIndex, named,
                        RequestDetector.caseSensitive)
           /\ response[1].keywords =
                 handleDetect([body EXCEPT !.targetFields = Some(named)])
                    .keywords

\* Every record has as many wordIndices as the index entry of its field and
\* keyword has words
CountsWords(list, d) ==
    \A k \in DOMAIN list :
        \A e \in Range(IndexGet(d.keywordIndex, list[k].normalizedText)) :
            (e.field = list[k].field /\ e.keyword = list[k].text)
            => Len(list[k].wordIndices) = e.wordCount

\* C30: for a token array whose texts are non-empty strings, every returned
\* match has as many wordIndices as the keyword of its index entry has words
\* (wordCount), in multi-word and in single-word mode.
C30_SpanMatchesWordCount ==
    (/\ body.wordsType = "array"
     /\ \A k \in DOMAIN body.words : ~InvalidText(body.words[k])) =>
        /\ IsPresent(keywords) => CountsWords(keywords[1], detector[1])
        /\ Succeeded => CountsWords(response[1].keywords, RequestDetector)

====
